---- MODULE Spec2Model ----
(***************************************************************************)
(* The resume intake-and-analysis pipeline of the backend:                 *)
(*   backend/controllers/resumeController.ts (handlers, multer, routes,    *)
(*                                            auth middleware)             *)
(*   unnamed/part_005                 (ResumeService: blob + record store) *)
(*   backend/services/aiService.ts    (AIService: the analysis worker)     *)
(*   unnamed/part_002                 (the Resume schema)                  *)
(*   backend/middleware/errorHandler.ts, unnamed/part_000 (validateRequest)*)
(*                                                                         *)
(* The server is one event loop: every `await` of a handler is a point     *)
(* where other handlers run, so each action below is the code between two  *)
(* awaits.  File-system and record-store writes and the completion API are *)
(* the environment: each such call takes its outcome (ok or fault) as an   *)
(* input.  Queries (findOne, findById, existsSync, readFile) answer from   *)
(* the current store.                                                      *)
(*                                                                         *)
(* Spec is the whole service.  The properties are checked under            *)
(* specifications that take the actions of the part they are about:        *)
(* SpecIntake (uploads and deletes), SpecAnalysis (concurrent analyses and *)
(* deletes of one record), SpecScoring (one analysis, every answer of the  *)
(* API), SpecAccess (get, download and delete on the records of two users) *)
(* and SpecRoundTrip (uploads, their analyses, downloads).                 *)
(***************************************************************************)
EXTENDS Integers, Sequences, FiniteSets, TLC

(* ------------------------------ bounds -------------------------------- *)

\* upload requests ever received (record ids and file names are fresh per request)
MaxUploads == 2
\* AIService.analyzeResume invocations made directly, besides the one each upload triggers
MaxReanalyze == 1
\* concurrent delete requests / download requests in flight
MaxDeletes == 1
MaxDownloads == 1
\* concurrent list requests in flight
MaxLists == 1
\* the last reading of the clock
MaxClock == 1

(* --------------------------- configuration ---------------------------- *)

\* config.upload.maxFileSize, in bytes
MaxFileSize == 10485760

\* config.upload.allowedMimeTypes (a sample of the six)
AllowedMimeTypes == {"text/plain", "application/pdf"}

\* MIME types a client may declare: allowed ones and one that is not
MimeTypes == {"text/plain", "application/zip"}

\* the score path of ResumeSchema: Number, min 0, max 100
ScoreMin == 0
ScoreMax == 100

(* ------------------------------ values -------------------------------- *)

Users == {"u1", "u2"}
\* a request without a (valid) bearer token: authenticateToken leaves req.user unset
NoUser == "anonymous"

\* optional values: undefined is <<>>, a value v is <<v>>
None == <<>>
Some(v) == <<v>>
IsSome(o) == o # <<>>
Get(o) == o[1]

\* a file: its length in bytes and its bytes (data stands for the byte sequence)
File(size, data) == [size |-> size, data |-> data]
NoFile == File(0, "")
\* the files a client sends: a 2KB one, one of exactly the limit, one a byte over it
Contents == {File(2048, "a"), File(MaxFileSize, "b"), File(MaxFileSize + 1, "c")}

UploadIds == 1..MaxUploads

\* what request number i sends with its file: the file's name (req.file.originalname)
\* and the body fields jobTitle and jobDescription
originalName(i) == <<"name", i>>
jobTitle(i) == <<"title", i>>
jobDescription(i) == <<"description", i>>

\* multer's diskStorage filename: `${Date.now()}-${uuidv4()}${ext}`, fresh per request
TmpPath(i) == [dir |-> "uploads", kind |-> "multer", req |-> i, call |-> 1]
\* a file name that is the same for every request
generateFileNameFixed(i, k) == [dir |-> "uploads", kind |-> "service", req |-> 0, call |-> 1]

\* ResumeService.generateFileName: `${uuidv4()}-${Date.now()}${ext}`, fresh at EVERY call;
\* call k of request i
generateFileName(i, k) == [dir |-> "uploads", kind |-> "service", req |-> i, call |-> k]

isAllowedMimeType(mimeType) == mimeType \in AllowedMimeTypes

\* fileFilter of the multer instance
fileFilter(mimeType) == mimeType \in AllowedMimeTypes

(* ------------------------------- state -------------------------------- *)

VARIABLES
    records,   \* the Resume collection: id -> document, DOMAIN = live ids
    files,     \* the upload directory: path -> bytes, DOMAIN = existing files
    up,        \* upload requests, by arrival number
    an,        \* analyzeResume invocations
    del,       \* delete requests in flight
    dl,        \* download requests in flight
    ls,        \* list requests in flight
    clock,     \* the time, as Date.now() reads it
    last,      \* the response sent by the step just taken (NoLast if it sent none)
    crashed    \* the process got an uncaught exception and exits

vars == <<records, files, up, an, del, dl, ls, clock, last, crashed>>

\* the process is up: handlers run only then
Running == ~crashed

Exists(path) == path \in DOMAIN files
WriteFile(fs, path, bytes) == [p \in DOMAIN fs \cup {path} |-> IF p = path THEN bytes ELSE fs[p]]
Unlink(fs, path) == [p \in DOMAIN fs \ {path} |-> fs[p]]

InsertDoc(db, id, doc) == [r \in DOMAIN db \cup {id} |-> IF r = id THEN doc ELSE db[r]]
\* a deleteOne that matches nothing
DeleteDocNothing(db, id) == db
DeleteDoc(db, id) == [r \in DOMAIN db \ {id} |-> db[r]]

\* a query that leaves the owner out of its filter
FindOneAnyOwner(db, id, userId) == {r \in DOMAIN db : r = id}

\* Resume.findOne({_id, userId}) / Resume.findById(_id): the matching ids (none or one)
FindOne(db, id, userId) == {r \in DOMAIN db : r = id /\ db[r].userId = userId}
FindById(db, id) == {r \in DOMAIN db : r = id}

(* ----------------------------- responses ------------------------------ *)

\* `x || d` on a status code (0 models undefined) and on an error code ("" models undefined)
OrNumber(x, d) == IF x = 0 THEN d ELSE x
OrString(x, d) == IF x = "" THEN d ELSE x

\* errors, as far as the handlers look at them: statusCode, code and message
ApplicationError(code, message, statusCode) ==
    [statusCode |-> statusCode, code |-> code, message |-> message]
\* a plain Error / a library error: no statusCode; `code` is what the library sets, if anything
PlainError(code, message) == [statusCode |-> 0, code |-> code, message |-> message]

NotFoundError == ApplicationError("RESUME_NOT_FOUND", "resume not found", 404)

\* the global errorHandler middleware: status and code of the envelope it sends
errorHandler(err) ==
    [status |-> OrNumber(err.statusCode, 500), code |-> OrString(err.code, "SERVER_ERROR")]

\* the `catch` of a controller handler: error.statusCode || 500, error.code || fallback
ControllerCatch(err, fallback) ==
    [status |-> OrNumber(err.statusCode, 500), code |-> OrString(err.code, fallback)]

(* ------------------- the completion API's response -------------------- *)

\* The response text, as far as parseAnalysisResult looks at it, is a sequence of
\* tokens: "{" and "}", "d" (the members of a JSON object, whose content is `data`)
\* and "x" (any other text).  `data.scoreDetails` is the scoreDetails member if the
\* object has one; its overallScore is optional too.
\* JSON numbers need not be whole: a number is held as its count of halves, N(n) being
\* the number n and NHalf(n) the number n + 0.5
N(n) == 2 * n
NHalf(n) == 2 * n + 1
IsInteger(x) == x % 2 = 0

ScoreDetails(r, c, f, l, o) ==
    [relevanceScore |-> r, completenessScore |-> c, formattingScore |-> f,
     languageScore |-> l, overallScore |-> o]

Datas ==
    { [scoreDetails |-> None],
      [scoreDetails |-> Some(ScoreDetails(N(50), N(60), N(70), N(80), Some(N(65))))],
      [scoreDetails |-> Some(ScoreDetails(N(50), N(60), N(70), N(80), Some(N(0))))],
      [scoreDetails |-> Some(ScoreDetails(N(50), N(60), N(70), N(82), None))],
      [scoreDetails |-> Some(ScoreDetails(N(50), N(60), N(70), N(83), None))],
      [scoreDetails |-> Some(ScoreDetails(N(100), N(100), N(100), N(100), Some(N(100))))],
      [scoreDetails |-> Some(ScoreDetails(N(50), N(60), N(70), N(80), Some(N(150))))],
      [scoreDetails |-> Some(ScoreDetails(N(50), N(60), N(70), N(80), Some(NHalf(72))))] }

Texts ==
    { <<"x", "x">>,                          \* prose, no braces
      <<"x", "{", "d", "}">>,                \* prose, then the object
      <<"{", "x", "}">>,                     \* braces around something that is not JSON
      <<"{", "d", "}", "x", "{", "}">>,      \* the object, then text with further braces
      <<"}", "x", "{">> }                    \* braces that enclose nothing

Responses ==
    { [text |-> t, data |-> d] : t \in {<<"x", "{", "d", "}">>}, d \in Datas }
    \cup { [text |-> t, data |-> [scoreDetails |-> None]] : t \in Texts }

\* resultText.match(/\{[\s\S]*\}/): greedy, from the first "{" that has a "}" after it
\* to the LAST "}" of the text; None when there is no match
JsonMatch(text) ==
    LET opens == {k \in 1..Len(text) : text[k] = "{"}
        closes == {k \in 1..Len(text) : text[k] = "}"}
        starts == {k \in opens : \E c \in closes : c > k}
    IN IF starts = {} THEN None
       ELSE LET first == CHOOSE k \in starts : \A j \in starts : k <= j
                lastc == CHOOSE k \in closes : \A j \in closes : j <= k
            IN Some(SubSeq(text, first, lastc))

\* JSON.parse of the matched text: the object, or None for a SyntaxError
JSONParse(match, data) ==
    IF match = <<"{", "d", "}">> THEN Some(data)
    ELSE IF match = <<"{", "}">> THEN Some([scoreDetails |-> None])
    ELSE None

\* Math.floor in the place of Math.round
FloorQuarter(sum) == N(sum \div 8)

\* Math.round(sum / 4): to the nearest integer, halves up (the sum being s halves, the
\* mean is s / 8, and the nearest integer to it (s + 4) \div 8)
RoundQuarter(sum) == N((sum + 4) \div 8)

\* the message of the Error thrown when the text has no match
NoJsonMessage == "parse: no JSON in the AI response"

\* AIService.parseAnalysisResult: [ok, analysis, score] or [ok |-> FALSE, message]
parseAnalysisResult(resp) ==
    LET m == JsonMatch(resp.text) IN
    IF ~IsSome(m) THEN [ok |-> FALSE, message |-> NoJsonMessage]
    ELSE LET obj == JSONParse(Get(m), resp.data) IN
    IF ~IsSome(obj) THEN [ok |-> FALSE, message |-> "parse: SyntaxError"]
    ELSE LET sd == IF IsSome(Get(obj).scoreDetails)
                   THEN Get(Get(obj).scoreDetails)
                   ELSE ScoreDetails(N(0), N(0), N(0), N(0), Some(N(0)))
             \* overallScore || Math.round(...): undefined and 0 are both falsy
             score == IF IsSome(sd.overallScore) /\ Get(sd.overallScore) # N(0)
                      THEN Get(sd.overallScore)
                      ELSE RoundQuarter(sd.relevanceScore + sd.completenessScore
                                        + sd.formattingScore + sd.languageScore)
         IN [ok |-> TRUE, analysis |-> [scoreDetails |-> sd], score |-> score]

(* --------------------------- initial state ---------------------------- *)

UpIdle ==
    [pc |-> "idle", user |-> NoUser, mime |-> "none", content |-> NoFile,
     buffer |-> NoFile, date |-> 0, err |-> PlainError("", "")]

AnSlots == 1..(MaxUploads + MaxReanalyze)
AnIdle ==
    [pc |-> "idle", rid |-> 0, upd |-> <<>>, parsed |-> None, err |-> "", result |-> ""]

DelSlots == 1..MaxDeletes
DelIdle == [pc |-> "idle", rid |-> 0, user |-> NoUser, path |-> <<>>]

\* a list request between its two queries: the filter, the window and the count
LsSlots == 1..MaxLists
LsIdle == [pc |-> "idle", user |-> NoUser, req |-> <<>>, skip |-> 0, limit |-> 0, total |-> 0]

DlSlots == 1..MaxDownloads
DlIdle == [pc |-> "idle", rid |-> 0, user |-> NoUser, path |-> <<>>]

\* a response as sent: the request it answers (op, user, rid and, for an upload, req:
\* the request's number, MIME type, size and whether its body fields validate), the
\* HTTP status, the envelope's error code ("OK" on success), its data and its
\* meta.timestamp, Date.now() when the envelope is built
Response(op, user, rid, req, status, code, body) ==
    [op |-> op, user |-> user, rid |-> rid, req |-> req,
     status |-> status, code |-> code, body |-> body, timestamp |-> clock]
NoLast == Response("none", NoUser, 0, <<>>, 0, "", <<>>)

Init ==
    /\ records = <<>>
    /\ files = <<>>
    /\ up = [i \in UploadIds |-> UpIdle]
    /\ an = [s \in AnSlots |-> AnIdle]
    /\ del = [d \in DelSlots |-> DelIdle]
    /\ dl = [k \in DlSlots |-> DlIdle]
    /\ ls = [l \in LsSlots |-> LsIdle]
    /\ clock = 0
    /\ last = NoLast
    /\ crashed = FALSE

(* ------------------------- POST /resume/upload ------------------------ *)

\* a document that is created with the status of a record under analysis
NewResumeProcessing(i, filePath) ==
    [userId |-> up[i].user, fileName |-> filePath, filePath |-> filePath,
     mimeType |-> up[i].mime, fileSize |-> up[i].content.size, uploadDate |-> up[i].date,
     originalName |-> originalName(i), jobTitle |-> jobTitle(i),
     jobDescription |-> jobDescription(i),
     status |-> "processing", analysis |-> None, score |-> None, error |-> None]

\* new Resume({...}) of ResumeService.uploadResume: the document of request i
NewResume(i, filePath) ==
    [userId |-> up[i].user, fileName |-> filePath, filePath |-> filePath,
     mimeType |-> up[i].mime, fileSize |-> up[i].content.size, uploadDate |-> up[i].date,
     originalName |-> originalName(i), jobTitle |-> jobTitle(i),
     jobDescription |-> jobDescription(i),
     status |-> "uploaded", analysis |-> None, score |-> None, error |-> None]

\* the catch block of ResumeService.uploadResume: it generates a NEW file name
\* (call k of generateFileName) and removes the file of that name if it exists
ServiceCleanup(fs, i, k) ==
    IF generateFileName(i, k) \in DOMAIN fs THEN Unlink(fs, generateFileName(i, k)) ELSE fs

\* the route without requireAuth: a request without req.user reaches the handler
UploadGateGuest(user, mime, content, bodyOk) ==
    IF mime # "none" /\ ~fileFilter(mime)
        THEN errorHandler(PlainError("", "unsupported file type")) @@ [tmp |-> FALSE]
    ELSE IF mime # "none" /\ content.size > MaxFileSize
        THEN errorHandler(PlainError("LIMIT_FILE_SIZE", "File too large")) @@ [tmp |-> FALSE]
    ELSE IF ~bodyOk THEN [status |-> 400, code |-> "VALIDATION_ERROR", tmp |-> mime # "none"]
    ELSE IF mime = "none" THEN [status |-> 400, code |-> "BAD_REQUEST", tmp |-> FALSE]
    ELSE [status |-> 0, code |-> "continue", tmp |-> TRUE]

\* what the route does with a request before the handler body runs:
\* authenticateToken, requireAuth, upload.single('resume') (fileFilter, limits.fileSize,
\* diskStorage), validateRequest, and the handler's `if (!req.file)`.
\* tmp: whether multer's temporary file is on disk afterwards; code "continue": the
\* handler goes on to read that file.  An Error of fileFilter and multer's
\* LIMIT_FILE_SIZE error carry no statusCode and go to the global errorHandler.
UploadGate(user, mime, content, bodyOk) ==
    IF user = NoUser THEN [status |-> 401, code |-> "UNAUTHORIZED", tmp |-> FALSE]
    ELSE IF mime # "none" /\ ~fileFilter(mime)
        THEN errorHandler(PlainError("", "unsupported file type")) @@ [tmp |-> FALSE]
    ELSE IF mime # "none" /\ content.size > MaxFileSize
        THEN errorHandler(PlainError("LIMIT_FILE_SIZE", "File too large")) @@ [tmp |-> FALSE]
    ELSE IF ~bodyOk THEN [status |-> 400, code |-> "VALIDATION_ERROR", tmp |-> mime # "none"]
    ELSE IF mime = "none" THEN [status |-> 400, code |-> "BAD_REQUEST", tmp |-> FALSE]
    ELSE [status |-> 0, code |-> "continue", tmp |-> TRUE]

\* the request of upload i as the responses record it
UploadReq(i, mime, content, bodyOk) ==
    [n |-> i, mime |-> mime, size |-> content.size, bodyOk |-> bodyOk]
UploadResponse(i, status, code, body) ==
    Response("upload", up[i].user, i,
             UploadReq(i, up[i].mime, up[i].content, TRUE), status, code, body)

\* request number i arrives.  A request that leaves nothing behind takes no number.
UploadReceive(i, user, mime, content, bodyOk) ==
    /\ Running
    /\ up[i].pc = "idle"
    /\ \A j \in 1..(i - 1) : up[j].pc # "idle"
    /\ LET g == UploadGate(user, mime, content, bodyOk)
           req == [up[i] EXCEPT !.user = user, !.mime = mime, !.content = content]
           rsp == Response("upload", user, 0, UploadReq(i, mime, content, bodyOk),
                           g.status, g.code, <<>>)
       IN /\ files' = IF g.tmp THEN WriteFile(files, TmpPath(i), content) ELSE files
          /\ up' = IF g.code = "continue" THEN [up EXCEPT ![i] = [req EXCEPT !.pc = "read"]]
                   ELSE IF g.tmp THEN [up EXCEPT ![i] = [req EXCEPT !.pc = "done"]]
                   ELSE up
          /\ last' = IF g.code = "continue" THEN NoLast ELSE rsp
    /\ UNCHANGED <<clock, ls, records, an, del, dl, crashed>>

\* fs.promises.readFile(req.file.path) returned; ResumeService.uploadResume runs up to
\* its writeFile (the two validations, generateFileName, ensureUploadDirectory)
UploadRead(i) ==
    /\ Running
    /\ up[i].pc = "read"
    /\ LET buffer == files[TmpPath(i)]
           size == up[i].content.size
           err == IF ~isAllowedMimeType(up[i].mime)
                  THEN ApplicationError("UNSUPPORTED_FILE_TYPE", "unsupported file type", 400)
                  ELSE IF size > MaxFileSize
                  THEN ApplicationError("FILE_TOO_LARGE", "file too large", 400)
                  ELSE PlainError("", "")
       IN IF err.statusCode # 0
          THEN /\ files' = ServiceCleanup(files, i, 1)
               /\ up' = [up EXCEPT ![i].pc = "cleanup", ![i].buffer = buffer, ![i].err = err]
          ELSE /\ files' = files
               /\ up' = [up EXCEPT ![i].pc = "write", ![i].buffer = buffer]
    /\ last' = NoLast
    /\ UNCHANGED <<clock, ls, records, an, del, dl, crashed>>

\* the schema default of uploadDate, Date.now at `new Resume`: time is the number of
\* documents constructed so far, so documents are dated in the order of construction
Now == Cardinality({j \in UploadIds : up[j].date > 0}) + 1

\* fs.promises.writeFile(filePath, options.buffer) settled; on success the document is
\* constructed and its save issued
UploadWrite(i, ok) ==
    /\ Running
    /\ up[i].pc = "write"
    /\ IF ok
       THEN /\ files' = WriteFile(files, generateFileName(i, 1), up[i].buffer)
            /\ up' = [up EXCEPT ![i].pc = "save", ![i].date = Now]
       ELSE /\ files' = ServiceCleanup(files, i, 2)
            /\ up' = [up EXCEPT ![i].pc = "cleanup",
                                ![i].err = PlainError("EIO", "write failed")]
    /\ last' = NoLast
    /\ UNCHANGED <<clock, ls, records, an, del, dl, crashed>>

\* resume.save() settled
UploadSave(i, ok) ==
    /\ Running
    /\ up[i].pc = "save"
    /\ IF ok
       THEN /\ records' = InsertDoc(records, i, NewResume(i, generateFileName(i, 1)))
            /\ files' = files
            /\ up' = [up EXCEPT ![i].pc = "unlink"]
       ELSE /\ records' = records
            /\ files' = ServiceCleanup(files, i, 2)
            /\ up' = [up EXCEPT ![i].pc = "cleanup",
                                ![i].err = PlainError("", "save failed")]
    /\ last' = NoLast
    /\ UNCHANGED <<clock, ls, an, del, dl, crashed>>

\* the analyzeResume invocation that starts with its first query in flight
AnStart(rid) == [AnIdle EXCEPT !.pc = "load", !.rid = rid]

\* fs.promises.unlink(req.file.path) settled: on success the handler starts the analysis
\* (not awaited) and sends 201 with the status of the document that save() returned
UploadFinish(i, ok) ==
    /\ Running
    /\ up[i].pc = "unlink"
    /\ IF ok
       THEN /\ files' = Unlink(files, TmpPath(i))
            /\ an' = [an EXCEPT ![i] = AnStart(i)]
            /\ up' = [up EXCEPT ![i].pc = "done"]
            /\ last' = UploadResponse(i, 201, "OK",
                                [resumeId |-> i, uploadDate |-> up[i].date,
                                 status |-> NewResume(i, generateFileName(i, 1)).status])
       ELSE /\ files' = files
            /\ an' = an
            /\ up' = [up EXCEPT ![i].pc = "cleanup",
                                ![i].err = PlainError("EPERM", "unlink failed")]
            /\ last' = NoLast
    /\ UNCHANGED <<clock, ls, records, del, dl, crashed>>

\* the handler's catch: remove the temporary file if it exists (errors ignored), then
\* send error.statusCode || 500
UploadCleanup(i, ok) ==
    /\ Running
    /\ up[i].pc = "cleanup"
    /\ files' = IF Exists(TmpPath(i)) /\ ok THEN Unlink(files, TmpPath(i)) ELSE files
    /\ up' = [up EXCEPT ![i].pc = "done"]
    /\ LET r == ControllerCatch(up[i].err, "RESUME_UPLOAD_FAILED")
       IN last' = UploadResponse(i, r.status, r.code, <<>>)
    /\ UNCHANGED <<clock, ls, records, an, del, dl, crashed>>

\* the requests that arrive: from each user, the two files within the limit, the file
\* over the limit, a file of a type that is not allowed, a request whose body fields
\* do not validate and a request without a file; and one without a bearer token
UploadRequests ==
    { [user |-> u, mime |-> "text/plain", content |-> c, bodyOk |-> TRUE] :
        u \in Users, c \in Contents }
    \cup { [user |-> u, mime |-> m, content |-> File(2048, "a"), bodyOk |-> TRUE] :
        u \in Users, m \in MimeTypes }
    \cup { [user |-> u, mime |-> "text/plain", content |-> File(2048, "a"), bodyOk |-> FALSE] :
        u \in Users }
    \cup { [user |-> u, mime |-> "none", content |-> NoFile, bodyOk |-> TRUE] : u \in Users }
    \cup { [user |-> NoUser, mime |-> "text/plain", content |-> File(2048, "a"), bodyOk |-> TRUE] }

\* the upload route, for the requests of Q
UploadWith(Q) ==
    \E i \in UploadIds :
        \/ \E q \in Q : UploadReceive(i, q.user, q.mime, q.content, q.bodyOk)
        \/ UploadRead(i)
        \/ \E ok \in BOOLEAN : UploadWrite(i, ok)
        \/ \E ok \in BOOLEAN : UploadSave(i, ok)
        \/ \E ok \in BOOLEAN : UploadFinish(i, ok)
        \/ \E ok \in BOOLEAN : UploadCleanup(i, ok)

Upload == UploadWith(UploadRequests)

(* ---------------------- AIService.analyzeResume ----------------------- *)

\* A mongoose document tracks the paths whose assigned value differs from the loaded
\* one; save() sends only those ($set).  lastUpdated is assigned a new Date at every
\* update, so every save sends an update, and one that matches no document is
\* rejected (DocumentNotFoundError) without inserting anything.
Modified(loaded, assigned) ==
    [f \in {g \in DOMAIN assigned : assigned[g] # loaded[g]} |-> assigned[f]]
ApplySet(doc, upd) == [f \in DOMAIN doc |-> IF f \in DOMAIN upd THEN upd[f] ELSE doc[f]]
SaveDoc(db, id, upd) == [r \in DOMAIN db |-> IF r = id THEN ApplySet(db[r], upd) ELSE db[r]]

\* ResumeSchema validation of the paths a save sends: score is a Number in 0..100
ValidUpdate(upd) ==
    "score" \in DOMAIN upd /\ IsSome(upd.score)
        => Get(upd.score) >= N(ScoreMin) /\ Get(upd.score) <= N(ScoreMax)

\* assignments that leave the error message out
StatusAssignmentsNoError(status, error) == [status |-> status]

\* the assignments of ResumeService.updateResumeStatus(resumeId, status, error)
StatusAssignments(status, error) ==
    IF error # "" THEN [status |-> status, error |-> Some(error)] ELSE [status |-> status]

\* assignments that take the job title from the analysis
AnalysisAssignmentsRetitling(analysis, score) ==
    [analysis |-> Some(analysis), score |-> Some(score), status |-> "analyzed",
     jobTitle |-> <<"title", 0>>]

\* the assignments of ResumeService.updateResumeAnalysis(resumeId, analysis, score)
AnalysisAssignments(analysis, score) ==
    [analysis |-> Some(analysis), score |-> Some(score), status |-> "analyzed"]

\* the catch block of analyzeResume is entered with error.message = message
AnCatch(s, message) == [an EXCEPT ![s].pc = "failFind", ![s].err = message]

\* analyzeResume settles: result is "ok" or what it rejects with
AnDone(s, result) == [an EXCEPT ![s] = [AnIdle EXCEPT !.pc = "done", !.rid = an[s].rid,
                                                      !.result = result]]

\* an invocation by any other caller of the (exported) service method
AnalyzeInvoke(s, rid) ==
    /\ Running
    /\ s > MaxUploads
    /\ up[rid].pc # "idle"
    /\ an[s].pc \in {"idle", "done"}
    /\ an' = [an EXCEPT ![s] = AnStart(rid)]
    /\ last' = NoLast
    /\ UNCHANGED <<clock, ls, records, files, up, del, dl, crashed>>

\* ResumeService.getResumeById(resumeId) answered
AnLoad(s) ==
    /\ Running
    /\ an[s].pc = "load"
    /\ an' = IF FindById(records, an[s].rid) = {}
             THEN AnCatch(s, NotFoundError.message)
             ELSE [an EXCEPT ![s].pc = "procFind"]
    /\ last' = NoLast
    /\ UNCHANGED <<clock, ls, records, files, up, del, dl, crashed>>

\* updateResumeStatus(PROCESSING): Resume.findById answered
AnProcFind(s) ==
    /\ Running
    /\ an[s].pc = "procFind"
    /\ an' = IF FindById(records, an[s].rid) = {}
             THEN AnCatch(s, NotFoundError.message)
             ELSE [an EXCEPT ![s].pc = "procSave",
                             ![s].upd = Modified(records[an[s].rid],
                                                 StatusAssignments("processing", ""))]
    /\ last' = NoLast
    /\ UNCHANGED <<clock, ls, records, files, up, del, dl, crashed>>

\* updateResumeStatus(PROCESSING): resume.save() settled
AnProcSave(s, ok) ==
    /\ Running
    /\ an[s].pc = "procSave"
    /\ IF an[s].rid \notin DOMAIN records
       THEN /\ an' = AnCatch(s, "DocumentNotFoundError")
            /\ records' = records
       ELSE IF ~ok
       THEN /\ an' = AnCatch(s, "store: save failed")
            /\ records' = records
       ELSE /\ an' = [an EXCEPT ![s].pc = "extract", ![s].upd = <<>>]
            /\ records' = SaveDoc(records, an[s].rid, an[s].upd)
    /\ last' = NoLast
    /\ UNCHANGED <<clock, ls, files, up, del, dl, crashed>>

\* extractTextFromFile: existsSync + readFile of the path loaded at the start
AnExtract(s) ==
    /\ Running
    /\ an[s].pc = "extract"
    /\ an' = IF ~Exists(generateFileName(an[s].rid, 1))
             THEN AnCatch(s, "extract: file does not exist")
             ELSE [an EXCEPT ![s].pc = "call"]
    /\ last' = NoLast
    /\ UNCHANGED <<clock, ls, records, files, up, del, dl, crashed>>

\* callAIService settled: the API answers resp, or fails (no key, network, non-2xx);
\* on an answer parseAnalysisResult runs and updateResumeAnalysis issues its findById
AnCall(s, ok, resp) ==
    /\ Running
    /\ an[s].pc = "call"
    /\ an' = IF ~ok THEN AnCatch(s, "ai: call failed")
             ELSE LET p == parseAnalysisResult(resp) IN
                  IF ~p.ok THEN AnCatch(s, p.message)
                  ELSE [an EXCEPT ![s].pc = "resFind",
                                  ![s].parsed = Some([analysis |-> p.analysis,
                                                      score |-> p.score])]
    /\ last' = NoLast
    /\ UNCHANGED <<clock, ls, records, files, up, del, dl, crashed>>

\* updateResumeAnalysis: Resume.findById answered
AnResFind(s) ==
    /\ Running
    /\ an[s].pc = "resFind"
    /\ an' = IF FindById(records, an[s].rid) = {}
             THEN AnCatch(s, NotFoundError.message)
             ELSE [an EXCEPT ![s].pc = "resSave",
                             ![s].upd = Modified(records[an[s].rid],
                                            AnalysisAssignments(Get(an[s].parsed).analysis,
                                                                Get(an[s].parsed).score))]
    /\ last' = NoLast
    /\ UNCHANGED <<clock, ls, records, files, up, del, dl, crashed>>

\* a save that inserts the document when the update matches none
AnResSaveUpserting(s, ok) ==
    /\ Running
    /\ an[s].pc = "resSave"
    /\ IF ~ValidUpdate(an[s].upd)
       THEN /\ an' = AnCatch(s, "validation: score out of range")
            /\ records' = records
       ELSE IF ~ok
       THEN /\ an' = AnCatch(s, "store: save failed")
            /\ records' = records
       ELSE /\ an' = AnDone(s, "ok")
            /\ records' = IF an[s].rid \in DOMAIN records
                          THEN SaveDoc(records, an[s].rid, an[s].upd)
                          ELSE InsertDoc(records, an[s].rid,
                                    ApplySet(NewResume(an[s].rid,
                                                       generateFileName(an[s].rid, 1)),
                                             an[s].upd))
    /\ last' = NoLast
    /\ UNCHANGED <<clock, ls, files, up, del, dl, crashed>>

\* updateResumeAnalysis: resume.save() settled; analyzeResume returns the document
AnResSave(s, ok) ==
    /\ Running
    /\ an[s].pc = "resSave"
    /\ IF ~ValidUpdate(an[s].upd)
       THEN /\ an' = AnCatch(s, "validation: score out of range")
            /\ records' = records
       ELSE IF an[s].rid \notin DOMAIN records
       THEN /\ an' = AnCatch(s, "DocumentNotFoundError")
            /\ records' = records
       ELSE IF ~ok
       THEN /\ an' = AnCatch(s, "store: save failed")
            /\ records' = records
       ELSE /\ an' = AnDone(s, "ok")
            /\ records' = SaveDoc(records, an[s].rid, an[s].upd)
    /\ last' = NoLast
    /\ UNCHANGED <<clock, ls, files, up, del, dl, crashed>>

\* catch: updateResumeStatus(FAILED, error.message || default): Resume.findById answered
AnFailFind(s) ==
    /\ Running
    /\ an[s].pc = "failFind"
    /\ an' = IF FindById(records, an[s].rid) = {}
             THEN AnDone(s, NotFoundError.code)
             ELSE [an EXCEPT ![s].pc = "failSave",
                             ![s].upd = Modified(records[an[s].rid],
                                 StatusAssignments("failed",
                                     OrString(an[s].err, "error during analysis")))]
    /\ last' = NoLast
    /\ UNCHANGED <<clock, ls, records, files, up, del, dl, crashed>>

\* a failure of the analysis that reaches the client as a response
AnFailSaveAnswering(s, ok) ==
    /\ Running
    /\ an[s].pc = "failSave"
    /\ IF an[s].rid \notin DOMAIN records
       THEN /\ an' = AnDone(s, "DocumentNotFoundError")
            /\ records' = records
       ELSE IF ~ok
       THEN /\ an' = AnDone(s, "StoreError")
            /\ records' = records
       ELSE /\ an' = AnDone(s, "RESUME_ANALYSIS_FAILED")
            /\ records' = SaveDoc(records, an[s].rid, an[s].upd)
    /\ last' = Response("upload", up[an[s].rid].user, an[s].rid, <<>>,
                        500, "RESUME_ANALYSIS_FAILED", <<>>)
    /\ UNCHANGED <<clock, ls, files, up, del, dl, crashed>>

\* catch: resume.save() settled; then RESUME_ANALYSIS_FAILED is thrown
AnFailSave(s, ok) ==
    /\ Running
    /\ an[s].pc = "failSave"
    /\ IF an[s].rid \notin DOMAIN records
       THEN /\ an' = AnDone(s, "DocumentNotFoundError")
            /\ records' = records
       ELSE IF ~ok
       THEN /\ an' = AnDone(s, "StoreError")
            /\ records' = records
       ELSE /\ an' = AnDone(s, "RESUME_ANALYSIS_FAILED")
            /\ records' = SaveDoc(records, an[s].rid, an[s].upd)
    /\ last' = NoLast
    /\ UNCHANGED <<clock, ls, files, up, del, dl, crashed>>

\* the steps of the invocations in slots S, the API answering from R
AnalyzeSteps(S, R) ==
    \E s \in S :
        \/ AnLoad(s)
        \/ AnProcFind(s)
        \/ \E ok \in BOOLEAN : AnProcSave(s, ok)
        \/ AnExtract(s)
        \/ \E ok \in BOOLEAN, resp \in R : AnCall(s, ok, resp)
        \/ AnResFind(s)
        \/ \E ok \in BOOLEAN : AnResSave(s, ok)
        \/ AnFailFind(s)
        \/ \E ok \in BOOLEAN : AnFailSave(s, ok)

\* ... and further invocations, on the ids handed out so far
AnalyzeWith(S, R) ==
    \/ \E s \in S, rid \in UploadIds : AnalyzeInvoke(s, rid)
    \/ AnalyzeSteps(S, R)

Analyze == AnalyzeWith(AnSlots, Responses)

(* ------------------------- DELETE /resume/:id ------------------------- *)

\* requireAuth: a request without req.user is answered 401 before the handler
Unauthorized(op, rid) == Response(op, NoUser, rid, <<>>, 401, "UNAUTHORIZED", <<>>)

\* ResumeService.deleteResume: Resume.findOne({_id, userId}) answered, then
\* existsSync(resume.filePath) decides whether unlink is called
DeleteFind(d, rid, user) ==
    /\ Running
    /\ del[d].pc = "idle"
    /\ IF user = NoUser
       THEN /\ last' = Unauthorized("delete", rid)
            /\ del' = del
       ELSE IF FindOne(records, rid, user) = {}
       THEN /\ last' = Response("delete", user, rid, <<>>, NotFoundError.statusCode,
                                NotFoundError.code, <<>>)
            /\ del' = del
       ELSE /\ last' = NoLast
            /\ del' = [del EXCEPT ![d] =
                         [pc |-> IF Exists(records[rid].filePath) THEN "unlink" ELSE "remove",
                          rid |-> rid, user |-> user, path |-> records[rid].filePath]]
    /\ UNCHANGED <<clock, ls, records, files, up, an, dl, crashed>>

\* fs.promises.unlink(resume.filePath) settled; a failure is logged and ignored
DeleteUnlink(d, ok) ==
    /\ Running
    /\ del[d].pc = "unlink"
    /\ files' = IF ok /\ Exists(del[d].path) THEN Unlink(files, del[d].path) ELSE files
    /\ del' = [del EXCEPT ![d].pc = "remove"]
    /\ last' = NoLast
    /\ UNCHANGED <<clock, ls, records, up, an, dl, crashed>>

\* Resume.deleteOne({_id}) settled; the handler answers
DeleteRemove(d, ok) ==
    /\ Running
    /\ del[d].pc = "remove"
    /\ records' = IF ok THEN DeleteDoc(records, del[d].rid) ELSE records
    /\ LET r == ControllerCatch(PlainError("", "deleteOne failed"), "SERVER_ERROR")
       IN last' = IF ok
                  THEN Response("delete", del[d].user, del[d].rid, <<>>, 200, "OK", <<>>)
                  ELSE Response("delete", del[d].user, del[d].rid, <<>>, r.status, r.code, <<>>)
    /\ del' = [del EXCEPT ![d] = DelIdle]
    /\ UNCHANGED <<clock, ls, files, up, an, dl, crashed>>

\* requests on a resume id: who asks for which id (ids are well-formed ObjectIds)
Requests(ids, users) == [rid : ids, user : users]
AllRequests == Requests(UploadIds, Users \cup {NoUser})

DeleteWith(Q) ==
    \E d \in DelSlots :
        \/ \E q \in Q : DeleteFind(d, q.rid, q.user)
        \/ \E ok \in BOOLEAN : DeleteUnlink(d, ok)
        \/ \E ok \in BOOLEAN : DeleteRemove(d, ok)

Delete == DeleteWith(AllRequests)

(* --------------------------- GET /resume/:id -------------------------- *)

\* ResumeService.getResumeById(resumeId, userId): the document or NotFound
getResumeById(db, rid, user) ==
    IF FindOne(db, rid, user) = {}
    THEN Response("get", user, rid, <<>>, NotFoundError.statusCode, NotFoundError.code, <<>>)
    ELSE Response("get", user, rid, <<>>, 200, "OK", Some(db[rid]))

\* a get that writes to the record it reads
GetResumeTouching(rid, user) ==
    /\ Running
    /\ last' = IF user = NoUser THEN Unauthorized("get", rid)
               ELSE getResumeById(records, rid, user)
    /\ records' = IF FindOne(records, rid, user) = {} THEN records
                  ELSE [records EXCEPT ![rid].uploadDate = 0]
    /\ UNCHANGED <<clock, ls, files, up, an, del, dl, crashed>>

\* the handler of GET /resume/:id
GetResume(rid, user) ==
    /\ Running
    /\ last' = IF user = NoUser THEN Unauthorized("get", rid)
               ELSE getResumeById(records, rid, user)
    /\ UNCHANGED <<clock, ls, records, files, up, an, del, dl, crashed>>

ReadWith(Q) == \E q \in Q : GetResume(q.rid, q.user)

Read == ReadWith(AllRequests)

(* --------------------------- GET /resume/list --------------------------- *)

\* `parseInt(raw) || d` on a query parameter that passed the 'number' validation:
\* an absent parameter (NaN) and 0 give the default
ParseIntOr(raw, d) == IF IsSome(raw) /\ Get(raw) # 0 THEN Get(raw) ELSE d

\* the values validateRequest accepts for query.status
StatusEnum == {"uploaded", "processing", "analyzed", "failed"}

\* a filter that leaves the owner out
QueryAnyOwner(db, userId, status) ==
    {r \in DOMAIN db : IsSome(status) => db[r].status = Get(status)}

\* the filter ResumeService.getResumes builds: userId, and status when given
Query(db, userId, status) ==
    {r \in DOMAIN db : /\ db[r].userId = userId
                       /\ IsSome(status) => db[r].status = Get(status)}

\* .sort({uploadDate: -1}) over the ids that match
RECURSIVE SortDesc(_, _)
SortDesc(db, ids) ==
    IF ids = {} THEN <<>>
    ELSE LET m == CHOOSE r \in ids : \A o \in ids : db[o].uploadDate <= db[r].uploadDate
         IN <<db[m]>> \o SortDesc(db, ids \ {m})

\* .skip(skip).limit(limit)
SkipLimit(seq, skip, limit) ==
    SubSeq(seq, skip + 1, IF skip + limit < Len(seq) THEN skip + limit ELSE Len(seq))

\* Math.ceil(total / limit) and Math.floor(skip / limit) + 1
TotalPages(total, limit) == (total + limit - 1) \div limit
PageOf(skip, limit) == (skip \div limit) + 1

\* requireAuth, validateRequest and the handler up to Resume.countDocuments(query)
\* answered: the window is computed from the query string, the count is taken
ListCount(l, user, status, page, limit) ==
    /\ Running
    /\ ls[l].pc = "idle"
    /\ IF user = NoUser
       THEN /\ last' = Response("list", NoUser, 0, <<>>, 401, "UNAUTHORIZED", <<>>)
            /\ ls' = ls
       ELSE IF IsSome(status) /\ Get(status) \notin StatusEnum
       THEN /\ last' = Response("list", user, 0, <<>>, 400, "VALIDATION_ERROR", <<>>)
            /\ ls' = ls
       ELSE /\ last' = NoLast
            /\ ls' = [ls EXCEPT ![l] =
                        [pc |-> "find", user |-> user,
                         req |-> [status |-> status, page |-> page, limit |-> limit],
                         skip |-> (ParseIntOr(page, 1) - 1) * ParseIntOr(limit, 10),
                         limit |-> ParseIntOr(limit, 10),
                         total |-> Cardinality(Query(records, user, status))]]
    /\ UNCHANGED <<clock, records, files, up, an, del, dl, crashed>>

\* Resume.find(query).sort().skip().limit() answered: the page is read, the pagination
\* computed and the response sent
ListFind(l) ==
    /\ Running
    /\ ls[l].pc = "find"
    /\ last' = Response("list", ls[l].user, 0, ls[l].req, 200, "OK",
                 [resumes |-> SkipLimit(SortDesc(records,
                                            Query(records, ls[l].user, ls[l].req.status)),
                                        ls[l].skip, ls[l].limit),
                  pagination |-> [page |-> PageOf(ls[l].skip, ls[l].limit),
                                  limit |-> ls[l].limit,
                                  total |-> ls[l].total,
                                  totalPages |-> TotalPages(ls[l].total, ls[l].limit)]])
    /\ ls' = [ls EXCEPT ![l] = LsIdle]
    /\ UNCHANGED <<clock, records, files, up, an, del, dl, crashed>>

\* the query strings sent: a status, a page and a limit, each given or not
ListRequests(users, statuses, pages, limits) ==
    [user : users,
     status : {None} \cup {Some(x) : x \in statuses},
     page : {None} \cup {Some(n) : n \in pages},
     limit : {None} \cup {Some(n) : n \in limits}]

ListWith(Q) ==
    \E l \in LsSlots :
        \/ \E q \in Q : ListCount(l, q.user, q.status, q.page, q.limit)
        \/ ListFind(l)

List == ListWith(ListRequests(Users \cup {NoUser}, StatusEnum \cup {"archived"}, 0..3, 0..2))

(* -------------------------------- time --------------------------------- *)

\* time passes between two steps of the handlers: the next Date.now() reads more
Tick ==
    /\ Running
    /\ clock < MaxClock
    /\ clock' = clock + 1
    /\ UNCHANGED <<records, files, up, an, del, dl, ls, last, crashed>>

(* ---------------------- GET /resume/:id/download ---------------------- *)

\* getResumeById answered, then existsSync(resume.filePath); on success the headers
\* are set and fs.createReadStream(resume.filePath).pipe(res) starts
DownloadFind(k, rid, user) ==
    /\ Running
    /\ dl[k].pc = "idle"
    /\ IF user = NoUser
       THEN /\ last' = Unauthorized("download", rid)
            /\ dl' = dl
       ELSE IF FindOne(records, rid, user) = {}
       THEN /\ last' = Response("download", user, rid, <<>>, NotFoundError.statusCode,
                                NotFoundError.code, <<>>)
            /\ dl' = dl
       ELSE IF ~Exists(records[rid].filePath)
       THEN /\ last' = Response("download", user, rid, <<>>, 404, "NOT_FOUND", <<>>)
            /\ dl' = dl
       ELSE /\ last' = NoLast
            /\ dl' = [dl EXCEPT ![k] = [pc |-> "stream", rid |-> rid, user |-> user,
                                        path |-> records[rid].filePath]]
    /\ UNCHANGED <<clock, ls, records, files, up, an, del, crashed>>

\* the read stream opens the file: its bytes are piped to the response; if the file
\* is gone the stream emits 'error', which nothing handles: an uncaught exception,
\* after which setupUncaughtExceptionHandling exits the process
DownloadStream(k) ==
    /\ Running
    /\ dl[k].pc = "stream"
    /\ IF Exists(dl[k].path)
       THEN /\ last' = Response("download", dl[k].user, dl[k].rid, <<>>, 200, "OK",
                                Some(files[dl[k].path]))
            /\ crashed' = FALSE
       ELSE /\ last' = NoLast
            /\ crashed' = TRUE
    /\ dl' = [dl EXCEPT ![k] = DlIdle]
    /\ UNCHANGED <<clock, ls, records, files, up, an, del>>

DownloadWith(Q) ==
    \E k \in DlSlots :
        \/ \E q \in Q : DownloadFind(k, q.rid, q.user)
        \/ DownloadStream(k)

Download == DownloadWith(AllRequests)

(* --------------------------- specifications --------------------------- *)

\* the whole service
Next == Upload \/ Analyze \/ Delete \/ Read \/ List \/ Download \/ Tick
Spec == Init /\ [][Next]_vars

\* the intake path: uploads, with deletes racing them
NextIntake == Upload \/ DeleteWith(Requests(UploadIds, Users))
SpecIntake == Init /\ [][NextIntake]_vars

\* the analysis worker: the state after user "u1" has uploaded one file (upload 1
\* answered 201, its analysis triggered); from there analyzeResume invocations, the
\* triggered one and later ones, race each other and delete requests
InitAnalysis ==
    /\ records = InsertDoc(<<>>, 1,
                    [userId |-> "u1", fileName |-> generateFileName(1, 1),
                     filePath |-> generateFileName(1, 1), mimeType |-> "text/plain",
                     fileSize |-> 2048, uploadDate |-> 1, originalName |-> originalName(1),
                     jobTitle |-> jobTitle(1), jobDescription |-> jobDescription(1),
                     status |-> "uploaded", analysis |-> None,
                     score |-> None, error |-> None])
    /\ files = WriteFile(<<>>, generateFileName(1, 1), File(2048, "a"))
    /\ up = [i \in UploadIds |->
                IF i = 1 THEN [UpIdle EXCEPT !.pc = "done", !.user = "u1",
                                             !.mime = "text/plain", !.content = File(2048, "a"),
                                             !.buffer = File(2048, "a"), !.date = 1]
                ELSE UpIdle]
    /\ an = [s \in AnSlots |-> IF s = 1 THEN AnStart(1) ELSE AnIdle]
    /\ del = [d \in DelSlots |-> DelIdle]
    /\ dl = [k \in DlSlots |-> DlIdle]
    /\ ls = [l \in LsSlots |-> LsIdle]
    /\ clock = 0
    /\ last = NoLast
    /\ crashed = FALSE

\* the answers raced: an object with a score, another one, and prose without braces
RaceResponses ==
    { [text |-> <<"x", "{", "d", "}">>,
       data |-> [scoreDetails |-> Some(ScoreDetails(N(50), N(60), N(70), N(80), Some(N(65))))]],
      [text |-> <<"x", "{", "d", "}">>,
       data |-> [scoreDetails |-> Some(ScoreDetails(N(100), N(100), N(100), N(100), Some(N(100))))]],
      [text |-> <<"x", "x">>, data |-> [scoreDetails |-> None]] }

NextAnalysis == AnalyzeWith(AnSlots, RaceResponses) \/ DeleteWith(Requests({1}, {"u1"}))
SpecAnalysis == InitAnalysis /\ [][NextAnalysis]_vars

\* one analysis: the invocation that the upload triggered, the API answering with any
\* of Responses, a delete request of the owner racing it
NextScoring == AnalyzeSteps({1}, Responses) \/ DeleteWith(Requests({1}, {"u1"}))
SpecScoring == InitAnalysis /\ [][NextScoring]_vars

\* access to the records: the state after "u2" has uploaded a file that has been
\* analysed (score 65) and "u1" has uploaded one whose analysis has just been
\* triggered; from there get, download and delete requests of either user, or of
\* nobody, on either id, while the analysis of "u1"'s record runs
\* the answer the analyses get there
GoodResponses ==
    { [text |-> <<"x", "{", "d", "}">>,
       data |-> [scoreDetails |-> Some(ScoreDetails(N(50), N(60), N(70), N(80), Some(N(65))))]] }

UploadedBy(i, user, content) ==
    [UpIdle EXCEPT !.pc = "done", !.user = user, !.mime = "text/plain",
                   !.content = content, !.buffer = content, !.date = i]
StoredResume(user, content, filePath) ==
    [userId |-> user, fileName |-> filePath, filePath |-> filePath,
     mimeType |-> "text/plain", fileSize |-> content.size, uploadDate |-> filePath.req,
     originalName |-> originalName(filePath.req), jobTitle |-> jobTitle(filePath.req),
     jobDescription |-> jobDescription(filePath.req),
     status |-> "uploaded", analysis |-> None, score |-> None, error |-> None]
InitAccess ==
    /\ up = [i \in UploadIds |->
                IF i = 1 THEN UploadedBy(1, "u1", File(2048, "a"))
                ELSE IF i = 2 THEN UploadedBy(2, "u2", File(MaxFileSize, "b"))
                ELSE UpIdle]
    /\ records = [i \in {1, 2} |->
                    LET doc == StoredResume(up[i].user, up[i].content, generateFileName(i, 1))
                        p == parseAnalysisResult(CHOOSE r \in GoodResponses : TRUE)
                    IN IF i = 1 THEN doc
                       ELSE ApplySet(doc, AnalysisAssignments(p.analysis, p.score))]
    /\ files = [p \in {generateFileName(i, 1) : i \in {1, 2}} |-> up[p.req].content]
    /\ an = [s \in AnSlots |->
                IF s = 1 THEN AnStart(1)
                ELSE IF s = 2 THEN [AnIdle EXCEPT !.pc = "done", !.rid = 2, !.result = "ok"]
                ELSE AnIdle]
    /\ del = [d \in DelSlots |-> DelIdle]
    /\ dl = [k \in DlSlots |-> DlIdle]
    /\ ls = [l \in LsSlots |-> LsIdle]
    /\ clock = 0
    /\ last = NoLast
    /\ crashed = FALSE

NextAccess ==
    \/ ReadWith(AllRequests)
    \/ DownloadWith(AllRequests)
    \/ DeleteWith(AllRequests)
    \/ AnalyzeSteps({1}, GoodResponses)
SpecAccess == InitAccess /\ [][NextAccess]_vars

\* the round trip: uploads of two different files by either user, the analyses they
\* trigger, and download requests of either user on either id
RoundTripRequests ==
    { [user |-> u, mime |-> "text/plain", content |-> c, bodyOk |-> TRUE] :
        u \in Users, c \in {File(2048, "a"), File(MaxFileSize, "b")} }
NextRoundTrip ==
    \/ UploadWith(RoundTripRequests)
    \/ AnalyzeSteps(UploadIds, GoodResponses)
    \/ DownloadWith(Requests(UploadIds, Users))
SpecRoundTrip == Init /\ [][NextRoundTrip]_vars

\* the listing: the state after "u1" has uploaded two files, the first analysed
\* (score 65), the analysis of the second just triggered; from there list requests of
\* either user, or of nobody, while that analysis runs and "u1" deletes records
InitList ==
    /\ up = [i \in UploadIds |->
                IF i = 1 THEN UploadedBy(1, "u1", File(2048, "a"))
                ELSE IF i = 2 THEN UploadedBy(2, "u1", File(MaxFileSize, "b"))
                ELSE UpIdle]
    /\ records = [i \in {1, 2} |->
                    LET doc == StoredResume(up[i].user, up[i].content, generateFileName(i, 1))
                        p == parseAnalysisResult(CHOOSE r \in GoodResponses : TRUE)
                    IN IF i = 2 THEN doc
                       ELSE ApplySet(doc, AnalysisAssignments(p.analysis, p.score))]
    /\ files = [p \in {generateFileName(i, 1) : i \in {1, 2}} |-> up[p.req].content]
    /\ an = [s \in AnSlots |->
                IF s = 2 THEN AnStart(2)
                ELSE IF s = 1 THEN [AnIdle EXCEPT !.pc = "done", !.rid = 1, !.result = "ok"]
                ELSE AnIdle]
    /\ del = [d \in DelSlots |-> DelIdle]
    /\ dl = [k \in DlSlots |-> DlIdle]
    /\ ls = [l \in LsSlots |-> LsIdle]
    /\ clock = 0
    /\ last = NoLast
    /\ crashed = FALSE

\* the owner asks with no status, a status of the enum or another word, with no page
\* or page 0, 1 or 2, with no limit or limit 0 or 1; the others ask for the first page
ListQueries ==
    ListRequests({"u1"}, {"analyzed", "archived"}, 0..2, 0..1)
        \cup ListRequests({"u2", NoUser}, {}, {}, {})
NextList ==
    \/ ListWith(ListQueries)
    \/ AnalyzeSteps({2}, GoodResponses)
    \/ DeleteWith(Requests({1, 2}, {"u1"}))
SpecList == InitList /\ [][NextList]_vars

\* the reads: from the state of the access specification, get and download requests of
\* either user, or of nobody, on either id, and list requests, while the analysis of
\* "u1"'s record runs and time passes
ReadQueries == ListRequests(Users \cup {NoUser}, {"analyzed"}, {1}, {1})
NextReads ==
    \/ ReadWith(AllRequests)
    \/ ListWith(ReadQueries)
    \/ DownloadWith(AllRequests)
    \/ AnalyzeSteps({1}, GoodResponses)
    \/ Tick
SpecReads == InitAccess /\ [][NextReads]_vars

\* the race: the state after user "u1" has uploaded one file and analyzeResume has been
\* invoked a second time on the record before the invocation that the upload triggered
\* has taken a step; from there the two invocations run, interleaved in any way
Racers == {1, MaxUploads + 1}
InitRace ==
    /\ records = InsertDoc(<<>>, 1,
                    [userId |-> "u1", fileName |-> generateFileName(1, 1),
                     filePath |-> generateFileName(1, 1), mimeType |-> "text/plain",
                     fileSize |-> 2048, uploadDate |-> 1, originalName |-> originalName(1),
                     jobTitle |-> jobTitle(1), jobDescription |-> jobDescription(1),
                     status |-> "uploaded",
                     analysis |-> None, score |-> None, error |-> None])
    /\ files = WriteFile(<<>>, generateFileName(1, 1), File(2048, "a"))
    /\ up = [i \in UploadIds |-> IF i = 1 THEN UploadedBy(1, "u1", File(2048, "a")) ELSE UpIdle]
    /\ an = [s \in AnSlots |-> IF s \in Racers THEN AnStart(1) ELSE AnIdle]
    /\ del = [d \in DelSlots |-> DelIdle]
    /\ dl = [k \in DlSlots |-> DlIdle]
    /\ ls = [l \in LsSlots |-> LsIdle]
    /\ clock = 0
    /\ last = NoLast
    /\ crashed = FALSE

NextRace == AnalyzeSteps(Racers, RaceResponses)
SpecRace == InitRace /\ [][NextRace]_vars

\* progress: the steps of an invocation that the server takes by itself, the store and
\* the file system answering every call and accepting every save ...
LocalSteps(s) ==
    \/ AnLoad(s)
    \/ AnProcFind(s)
    \/ AnProcSave(s, TRUE)
    \/ AnExtract(s)
    \/ AnResFind(s)
    \/ AnResSave(s, TRUE)
    \/ AnFailFind(s)
    \/ AnFailSave(s, TRUE)

\* ... and the step that waits for the completion API: axios.post is called without a
\* timeout option, so it settles when the API answers or the connection fails, if ever
RemoteStep(s) == \E ok \in BOOLEAN, resp \in RaceResponses : AnCall(s, ok, resp)

\* the two invocations of the race, every local step taken eventually, the remote step
\* whenever it happens
NextLive == \E s \in Racers : LocalSteps(s) \/ RemoteStep(s)
SpecLive == InitRace /\ [][NextLive]_vars /\ \A s \in Racers : WF_vars(LocalSteps(s))

(* ------------------------------- claims -------------------------------- *)

\* an upload response r answers a request of an authenticated user with a file of an
\* allowed type and of a size within the limit
AcceptableUpload(r) ==
    /\ r.op = "upload"
    /\ r.user \in Users
    /\ r.req.mime \in AllowedMimeTypes
    /\ r.req.size <= MaxFileSize

\* the record of upload i is there, owned by user, with status uploaded
UploadedRecord(db, i, user) ==
    i \in DOMAIN db /\ db[i].userId = user /\ db[i].status = "uploaded"

\* the storage steps of an upload that can fail, by the message of their error
StorageFailures == {"write failed", "save failed", "unlink failed"}

\* C1, as the code has it: an upload by an authenticated user of a file of an allowed
\* type and size, whose body fields validate, is answered 201 with status uploaded in
\* the body exactly when none of its storage steps fails, and 500 otherwise; the save
\* step creates the record, owned by that user with status uploaded; until the 201 is
\* sent only a delete request of the owner removes it; and when the 201 is sent the
\* record, if still there, is owned by that user with status uploaded.
C1_UploadAnswered ==
    [][ /\ AcceptableUpload(last') /\ last'.req.bodyOk =>
              IF up'[last'.rid].err.message = ""
              THEN /\ last'.status = 201
                   /\ last'.body.status = "uploaded"
                   /\ last'.rid \in DOMAIN records' =>
                          UploadedRecord(records', last'.rid, last'.user)
              ELSE /\ last'.status = 500
                   /\ up'[last'.rid].err.message \in StorageFailures
        /\ \A i \in UploadIds :
              /\ up[i].pc = "save" /\ up'[i].pc = "unlink" =>
                    UploadedRecord(records', i, up[i].user)
              /\ up[i].pc = "unlink" /\ i \in DOMAIN records /\ i \notin DOMAIN records' =>
                    \E d \in DelSlots : /\ del[d].pc = "remove" /\ del[d].rid = i
                                         /\ del[d].user = records[i].userId
      ]_vars

\* C1's case: a 201 has just been sent and the record is there
C1_Witness ==
    AcceptableUpload(last) /\ last.status = 201 /\ last.rid \in DOMAIN records

\* C1 as claimed: every upload by an authenticated user of a file of an allowed type
\* and size is answered 201, and when the response is sent the record exists, owned by
\* that user, with status uploaded
C1_AsClaimed ==
    AcceptableUpload(last) =>
        last.status = 201 /\ UploadedRecord(records, last.rid, last.user)

\* nothing of upload request number n is in the upload directory or the collection
NothingOf(n) == n \notin DOMAIN records /\ \A p \in DOMAIN files : p.req # n

\* C2 as claimed: an upload whose file type is not in the allow-list leaves no blob and
\* no record, and is answered 400
C2_AsClaimed ==
    last.op = "upload" /\ last.user \in Users /\ last.req.mime \notin AllowedMimeTypes \cup {"none"}
        => last.status = 400 /\ NothingOf(last.req.n)

\* C3 as claimed: an upload whose file is larger than maxFileSize leaves no blob and no
\* record, and is answered 400
C3_AsClaimed ==
    last.op = "upload" /\ last.user \in Users /\ last.req.mime # "none"
                       /\ last.req.size > MaxFileSize
        => last.status = 400 /\ NothingOf(last.req.n)

\* the status changes the state machine of the record allows
AllowedTransitions ==
    { <<"uploaded", "processing">>, <<"processing", "analyzed">>, <<"processing", "failed">>,
      <<"analyzed", "processing">>, <<"failed", "processing">> }

\* C4 as claimed: whatever the interleaving of analyze invocations and delete requests,
\* the persisted status of a record changes only along uploaded->processing,
\* processing->analyzed, processing->failed, analyzed->processing, failed->processing
\* (so no record returns to uploaded, no terminal status is overwritten by the other one,
\* and analyzed or failed is written only over the processing that an invocation wrote)
C4_AsClaimed ==
    [][ \A r \in DOMAIN records \cap DOMAIN records' :
            records[r].status # records'[r].status =>
                <<records[r].status, records'[r].status>> \in AllowedTransitions ]_vars

\* C5 as claimed: once analyze has returned successfully the record has status analyzed,
\* an analysis, and, when the parsed response has an overallScore in 0..100 (0 included),
\* a score equal to it
C5_AsClaimed ==
    \A s \in AnSlots :
        an[s].pc = "done" /\ an[s].result = "ok" /\ an[s].rid \in DOMAIN records =>
            LET r == records[an[s].rid] IN
            /\ r.status = "analyzed"
            /\ IsSome(r.analysis)
            /\ LET o == Get(r.analysis).scoreDetails.overallScore IN
               IsSome(o) /\ Get(o) \in N(ScoreMin)..N(ScoreMax) => r.score = o

\* the text has a "{" with a "}" somewhere after it
HasBlock(text) ==
    \E i, j \in 1..Len(text) : i < j /\ text[i] = "{" /\ text[j] = "}"

C7_AsClaimed ==
    [][ \A s \in AnSlots :
            /\ an[s].pc \in {"failFind", "failSave"} /\ an'[s].pc = "done"
            /\ an[s].rid \in DOMAIN records'
            => /\ an'[s].result = "RESUME_ANALYSIS_FAILED"
               /\ records'[an[s].rid].status = "failed"
               /\ records'[an[s].rid].error = Some(an[s].err) ]_vars

\* the response that a request on a non-existent id gets
NotFoundResponse(op, user, rid) ==
    Response(op, user, rid, <<>>, NotFoundError.statusCode, NotFoundError.code, <<>>)

\* the collection has no record of that id owned by that user
NotOwned(db, rid, user) == rid \notin DOMAIN db \/ db[rid].userId # user

\* the step answers a request straight away, without starting a handler that goes on:
\* a get, or a delete or download request that is refused
Refusal(op) ==
    /\ last'.op = op
    /\ last'.user \in Users
    /\ op = "delete" => del' = del
    /\ op = "download" => dl' = dl

\* C8: when a delete request is answered 200 the record is gone, and a record that is
\* gone stays gone, so that every later get of the id is answered NotFound; the blob is
\* absent once its unlink has succeeded; whether the unlink succeeds or fails the
\* handler goes on to remove the record; and a delete request on an id that has no
\* record of the requester is answered NotFound, starts nothing and changes nothing.
C8_Delete ==
    [][ /\ last'.op = "delete" /\ last'.status = 200 => last'.rid \notin DOMAIN records'
        /\ DOMAIN records' \subseteq DOMAIN records \cup {i \in UploadIds : up[i].pc = "save"}
        /\ last'.op = "get" /\ last'.user \in Users /\ last'.rid \notin DOMAIN records' =>
              last' = NotFoundResponse("get", last'.user, last'.rid)
        /\ \A d \in DelSlots :
              /\ del[d].pc = "unlink" /\ del'[d] # del[d] =>
                    /\ del'[d].pc = "remove"
                    /\ files' = files \/ del[d].path \notin DOMAIN files'
              /\ del[d].pc = "remove" /\ del'[d] # del[d] =>
                    \/ last'.status = 200 /\ del[d].rid \notin DOMAIN records'
                    \/ last'.status = 500 /\ records' = records
              /\ del[d].pc = "idle" /\ del'[d] # del[d] =>
                    ~NotOwned(records, del'[d].rid, del'[d].user)
        /\ Refusal("delete") =>
              /\ NotOwned(records, last'.rid, last'.user)
              /\ last' = NotFoundResponse("delete", last'.user, last'.rid)
              /\ records' = records /\ files' = files
      ]_vars

\* C8's case: a delete has just been answered 200 although the blob could not be
\* removed: the record is gone, the blob is still there
C8_Witness ==
    /\ last.op = "delete" /\ last.status = 200 /\ last.rid = 1
    /\ 1 \notin DOMAIN records
    /\ generateFileName(1, 1) \in DOMAIN files

\* the records of the collection that user owns
Mine(db, user) == [r \in {x \in DOMAIN db : db[x].userId = user} |-> db[r]]

\* C9: a get, download or delete request on a record of another owner is answered as a
\* request on a non-existent id is (404 RESUME_NOT_FOUND, no payload) and changes
\* neither the records nor the blobs; what a user's request finds, and what a get
\* answers, is the same with the records of all other users removed; and a delete
\* request changes no record and no blob of another user.
C9_OwnerOnly ==
    [][ /\ \A op \in {"get", "download", "delete"} :
              Refusal(op) /\ NotOwned(records, last'.rid, last'.user) =>
                  /\ last' = NotFoundResponse(op, last'.user, last'.rid)
                  /\ records' = records /\ files' = files
        /\ \A u \in Users, rid \in UploadIds :
              /\ FindOne(records, rid, u) = FindOne(Mine(records, u), rid, u)
              /\ getResumeById(records, rid, u) = getResumeById(Mine(records, u), rid, u)
        /\ \A d \in DelSlots :
              /\ del[d].pc = "idle" /\ del'[d] # del[d] =>
                    del'[d].rid \in DOMAIN Mine(records, del'[d].user)
              /\ del[d].pc # "idle" /\ del'[d] # del[d] =>
                    \A u \in Users \ {del[d].user} :
                        /\ Mine(records', u) = Mine(records, u)
                        /\ \A r \in DOMAIN Mine(records, u) :
                              Exists(records[r].filePath) =>
                                  /\ records[r].filePath \in DOMAIN files'
                                  /\ files'[records[r].filePath] = files[records[r].filePath]
        /\ \A k \in DlSlots :
              dl[k].pc = "idle" /\ dl'[k] # dl[k] =>
                  dl'[k].rid \in DOMAIN Mine(records, dl'[k].user)
      ]_vars

\* C9's case: "u2" has just asked to delete the record of "u1", which exists, and has
\* been told it does not
C9_Witness ==
    /\ last = NotFoundResponse("delete", "u2", 1)
    /\ 1 \in DOMAIN records /\ records[1].userId = "u1"
    /\ Exists(records[1].filePath)

\* C10: the bytes that a download serves are the bytes that the client sent in the
\* upload request that created the record
C10_RoundTrip ==
    last.op = "download" /\ last.status = 200 => last.body = Some(up[last.rid].content)

\* C10's case: the second upload's file has just been served while the analysis of
\* that record has run
C10_Witness ==
    /\ last.op = "download" /\ last.status = 200 /\ last.rid = 2
    /\ an[2].pc = "done"

\* the records of an owner that have the status asked for, if one is asked for
Matching(db, owner, status) ==
    {r \in DOMAIN db : db[r].userId = owner /\ (status = None \/ db[r].status = Get(status))}

\* a 200 answer r to a list request, against the store db the page was read from:
\* only matching records, no more than the limit, newest first, totalPages the least
\* number of pages of `limit` records that hold `total`, and the page that was asked for
ListedFrom(r, db) ==
    LET page == r.body.pagination
        asked == r.req
    IN /\ \A k \in 1..Len(r.body.resumes) :
            \E m \in Matching(db, r.user, asked.status) : r.body.resumes[k] = db[m]
       /\ Len(r.body.resumes) <= page.limit
       /\ IsSome(asked.limit) /\ Get(asked.limit) >= 1 => page.limit = Get(asked.limit)
       /\ \A j, k \in 1..Len(r.body.resumes) :
            j < k => r.body.resumes[j].uploadDate >= r.body.resumes[k].uploadDate
       /\ page.totalPages * page.limit >= page.total
       /\ (page.totalPages - 1) * page.limit < page.total
       /\ IsSome(asked.page) /\ Get(asked.page) >= 1 => page.page = Get(asked.page)

\* C13 as stated: a list answers with records of the owner that match the status
\* filter, at most limit of them, newest first, with total the number of matching
\* records, totalPages = ceil(total/limit) and the page that was asked for
C13_AsClaimed ==
    last.op = "list" /\ last.status = 200 =>
        /\ ListedFrom(last, records)
        /\ last.body.pagination.total =
                Cardinality(Matching(records, last.user, last.req.status))

\* C13: a list answers with records of the owner that match the status filter, at
\* most limit of them, newest first, with totalPages = ceil(total/limit) and the page
\* that was asked for, where total is the number of records that matched when the
\* count query was answered, one step before the page is read
C13_List ==
    [][\A l \in LsSlots :
        /\ ls[l].pc = "idle" /\ ls'[l].pc = "find" =>
                ls'[l].total =
                    Cardinality(Matching(records, ls'[l].user, ls'[l].req.status))
        /\ ls[l].pc = "find" /\ ls'[l].pc = "idle" =>
                /\ last'.op = "list" /\ last'.status = 200 /\ last'.user = ls[l].user
                /\ ListedFrom(last', records')
                /\ last'.body.pagination.total = ls[l].total]_vars

\* the second page of one record each, of two records, has been sent
C13_Witness ==
    /\ last.op = "list" /\ last.status = 200
    /\ last.body.pagination = [page |-> 2, limit |-> 1, total |-> 2, totalPages |-> 2]
    /\ Len(last.body.resumes) = 1
    /\ last.body.resumes[1] = records[1]

\* the step is one of a read: it answers a get, a list or a download request, or moves
\* a list or download handler on
ReadStep ==
    \/ last'.op \in {"get", "list", "download"} /\ last' # last
    \/ ls' # ls
    \/ dl' # dl

\* two responses to get requests for the same id by the same user, one sent right after
\* the other with no step of any handler in between
TwoGets(r1, r2) ==
    /\ r1.op = "get" /\ r2.op = "get"
    /\ r1.rid = r2.rid /\ r1.user = r2.user
    /\ r2.user \in Users

\* C11 as stated: the second of two get requests for the same id with no mutation in
\* between is answered with the payload of the first, the whole envelope, and no step
\* of a get, a list or a download changes a record or a blob
C11_AsClaimed ==
    [][ /\ ReadStep => records' = records /\ files' = files
        /\ TwoGets(last, last') => last' = last ]_vars

\* C11: the second of two get requests for the same id with no mutation in between is
\* answered with the status, code and data of the first, the envelope's timestamp
\* being the time of each answer; what a get answers is the record as stored, or
\* NotFound; and no step of a get, a list or a download changes a record or a blob
C11_ReadIdempotent ==
    [][ /\ ReadStep => records' = records /\ files' = files
        /\ TwoGets(last, last') =>
              /\ last'.status = last.status
              /\ last'.code = last.code
              /\ last'.body = last.body
        /\ last'.op = "get" /\ last'.user \in Users /\ last' # last =>
              /\ last'.timestamp = clock'
              /\ IF NotOwned(records, last'.rid, last'.user)
                 THEN last' = NotFoundResponse("get", last'.user, last'.rid)
                 ELSE last'.status = 200 /\ last'.body = Some(records[last'.rid])
      ]_vars

\* C11's case: the analysed record has been read by its owner after time has passed
C11_Witness ==
    /\ last.op = "get" /\ last.status = 200 /\ last.rid = 1
    /\ last.timestamp = MaxClock
    /\ last.body = Some(records[1])
    /\ records[1].status = "analyzed"
    /\ \E k \in DlSlots : dl[k].pc # "idle"

\* db2 differs from db at most in the fields F of record rid
DiffersOnlyIn(db, db2, rid, F) ==
    /\ DOMAIN db2 = DOMAIN db
    /\ \A r \in DOMAIN db :
          \A f \in DOMAIN db[r] : r # rid \/ f \notin F => db2[r][f] = db[r][f]

\* C12: an upload is answered 201 in the step that starts its analysis, before any
\* step of that analysis, with a body fixed by the upload alone; once the response is
\* sent nothing of the upload changes; no step of an analysis sends a response or
\* touches a blob; and an analysis that fails leaves its trace only in the status and
\* error of its record.
C12_UploadIndependent ==
    [][ /\ \A i \in UploadIds :
              /\ up[i].pc # "done" /\ up'[i].pc = "done" /\ last'.status = 201 =>
                    /\ an[i] = AnIdle /\ an'[i] = AnStart(i)
                    /\ last'.op = "upload" /\ last'.rid = i
                    /\ last'.body = [resumeId |-> i, uploadDate |-> up[i].date,
                                     status |-> "uploaded"]
              /\ up[i].pc = "done" => up'[i] = up[i]
        /\ \A s \in AnSlots :
              /\ an[s].pc # "idle" /\ an'[s] # an[s] =>
                    /\ last' = NoLast
                    /\ up' = up /\ files' = files
                    /\ DiffersOnlyIn(records, records', an[s].rid,
                                     {"status", "analysis", "score", "error"})
              /\ an[s].pc \in {"failFind", "failSave"} /\ an'[s] # an[s] =>
                    /\ DiffersOnlyIn(records, records', an[s].rid, {"status", "error"})
                    /\ an'[s].pc = "done" => an'[s].result # "ok"
      ]_vars

\* C12's case: the second upload has just been answered 201 while the analysis of the
\* first, answered 201 before, has failed and has recorded it
C12_Witness ==
    /\ last.op = "upload" /\ last.status = 201 /\ last.rid = 2
    /\ up[1].pc = "done"
    /\ an[1].pc = "done" /\ an[1].result = "RESUME_ANALYSIS_FAILED"
    /\ 1 \in DOMAIN records /\ records[1].status = "failed" /\ IsSome(records[1].error)

\* C14 as stated: a record has an analysis only if its status is analyzed
C14_AsClaimed ==
    \A r \in DOMAIN records : IsSome(records[r].analysis) => records[r].status = "analyzed"

\* C15 as stated: a record has an error message only if its status is failed
C15_AsClaimed ==
    \A r \in DOMAIN records : IsSome(records[r].error) => records[r].status = "failed"

\* C16 as stated: every record in the collection has its blob, the file at its filePath
C16_AsClaimed ==
    \A r \in DOMAIN records : Exists(records[r].filePath)

\* C17 as stated: when the save of the record fails after the blob was written, the
\* catch block of uploadResume leaves no blob at the path that was written, and the
\* error that goes on to the caller is the error of the save
C17_AsClaimed ==
    [][ \A i \in UploadIds :
            up[i].pc = "save" /\ up'[i].pc = "cleanup" =>
                /\ Exists(generateFileName(i, 1))
                /\ generateFileName(i, 1) \notin DOMAIN files'
                /\ up'[i].err = PlainError("", "save failed") ]_vars

\* C18 as stated: when an upload request is answered, the temporary file that the
\* multipart middleware wrote for it is no longer on disk
C18_AsClaimed ==
    last.op = "upload" => ~Exists(TmpPath(last.req.n))

\* C19: once the record of an analyze invocation in flight is gone, no step of that
\* invocation sends a response or changes the records or the files, so the record stays
\* absent and no blob comes back; every query of it finds nothing and every save of it
\* is rejected, which takes the invocation to its catch block or ends it; and it ends
\* rejecting, never returning a document.
C19_DeletedStaysDeleted ==
    [][ \A s \in AnSlots :
            /\ an[s].pc \notin {"idle", "done"}
            /\ an'[s] # an[s]
            /\ an[s].rid \notin DOMAIN records
            => /\ records' = records /\ files' = files
               /\ last' = NoLast
               /\ an[s].pc \in {"load", "procFind", "procSave", "resFind", "resSave"} =>
                        an'[s].pc = "failFind"
               /\ an[s].pc \in {"failFind", "failSave"} => an'[s].pc = "done"
               /\ an'[s].pc = "done" =>
                        an'[s].result \in {"RESUME_NOT_FOUND", "DocumentNotFoundError"}
      ]_vars

\* C19's case: the record and its blob were deleted while an invocation was between the
\* query and the save of its last write, and the invocation has ended with the save's
\* rejection
C19_Witness ==
    /\ 1 \notin DOMAIN records
    /\ ~Exists(generateFileName(1, 1))
    /\ \E s \in AnSlots : /\ an[s].pc = "done" /\ an[s].rid = 1
                          /\ an[s].result = "DocumentNotFoundError"

\* C20 as stated: when the two concurrent invocations on the record have both ended,
\* each with its last write accepted by the store (it returned the document, or
\* rejected with RESUME_ANALYSIS_FAILED after recording the failure), the record is
\* analyzed, with an analysis and a score and no error, or failed, with an error and
\* no analysis and no score: the fields of one invocation's write
C20_AsClaimed ==
    (\A s \in Racers : an[s].pc = "done" /\ an[s].result \in {"ok", "RESUME_ANALYSIS_FAILED"}) =>
        \/ /\ records[1].status = "analyzed"
           /\ IsSome(records[1].analysis) /\ IsSome(records[1].score)
           /\ records[1].error = None
        \/ /\ records[1].status = "failed"
           /\ records[1].analysis = None /\ records[1].score = None
           /\ IsSome(records[1].error)

\* C21 as stated: an invocation that has set the record to processing eventually ends
\* having set it to analyzed or to failed
C21_AsClaimed ==
    \A s \in Racers :
        (an[s].pc = "extract") ~>
            (an[s].pc = "done" /\ an[s].result \in {"ok", "RESUME_ANALYSIS_FAILED"})

\* C22 as stated: every score stored on a record is an integer in 0..100
C22_AsClaimed ==
    \A r \in DOMAIN records :
        IsSome(records[r].score) =>
            /\ IsInteger(Get(records[r].score))
            /\ Get(records[r].score) >= N(0) /\ Get(records[r].score) <= N(100)

\* k is a whole number nearest to a quarter of sum
NearestToQuarter(k, sum) ==
    /\ IsInteger(k)
    /\ 4 * k - sum <= 4
    /\ sum - 4 * k <= 4

\* what parsing makes of the object `data`: the analysis and the score of C23, for an
\* object without scoreDetails and for one whose scoreDetails has no overallScore
ParsedAsClaimed(data, p) ==
    /\ data.scoreDetails = None =>
          /\ p.analysis.scoreDetails = ScoreDetails(N(0), N(0), N(0), N(0), Some(N(0)))
          /\ p.score = N(0)
    /\ IsSome(data.scoreDetails) /\ Get(data.scoreDetails).overallScore = None =>
          LET sd == Get(data.scoreDetails) IN
          /\ p.analysis.scoreDetails = sd
          /\ NearestToQuarter(p.score, sd.relevanceScore + sd.completenessScore
                                        + sd.formattingScore + sd.languageScore)

\* C23: a response whose object has no scoreDetails is parsed to an analysis with the
\* five scores 0 and to the score 0, and one whose scoreDetails has no overallScore to
\* the mean of the four scores rounded to the nearest integer; that analysis and that
\* score are what the invocation hands to the store and what an accepted save stores.
C23_Defaults ==
    [][ \A s \in AnSlots :
            /\ an[s].pc = "call" /\ an'[s].pc = "resFind" =>
                  \E resp \in Responses :
                      /\ parseAnalysisResult(resp).ok
                      /\ an'[s].parsed = Some([analysis |-> parseAnalysisResult(resp).analysis,
                                               score |-> parseAnalysisResult(resp).score])
                      /\ ParsedAsClaimed(Get(JSONParse(Get(JsonMatch(resp.text)), resp.data)),
                                         Get(an'[s].parsed))
            /\ an[s].pc = "resSave" /\ an'[s].pc = "done" /\ an'[s].result = "ok" =>
                  /\ records'[an[s].rid].analysis = Some(Get(an[s].parsed).analysis)
                  /\ records'[an[s].rid].score = Some(Get(an[s].parsed).score)
      ]_vars

\* C23's case: the record has been analysed from scoreDetails 50, 60, 70, 83 without an
\* overallScore (mean 65.75), and holds the score 66
C23_Witness ==
    /\ an[1].pc = "done" /\ an[1].result = "ok"
    /\ 1 \in DOMAIN records /\ records[1].status = "analyzed"
    /\ Get(records[1].analysis).scoreDetails =
            ScoreDetails(N(50), N(60), N(70), N(83), None)
    /\ records[1].score = Some(N(66))

\* the opening braces minus the closing braces of text[i..j]
Depth(text, i, j) ==
    Cardinality({k \in i..j : text[k] = "{"}) - Cardinality({k \in i..j : text[k] = "}"})

\* text[i..j] is a balanced {...} block: it opens at i and closes, for the first time, at j
Balanced(text, i, j) ==
    /\ text[i] = "{"
    /\ Depth(text, i, j) = 0
    /\ \A k \in i..(j - 1) : Depth(text, i, k) > 0

\* the first balanced block of the text, None if it has none
FirstBlock(text) ==
    LET blocks == {b \in (1..Len(text)) \X (1..Len(text)) : Balanced(text, b[1], b[2])}
    IN IF blocks = {} THEN None
       ELSE LET b == CHOOSE c \in blocks : \A e \in blocks : c[1] <= e[1]
            IN Some(SubSeq(text, b[1], b[2]))

\* C24 as stated: whatever the completion API answers to an invocation that waits for
\* it, parsing succeeds when the first balanced block of the text is valid JSON, with
\* that block's object as the analysis, and fails when there is no block or the block
\* is not valid JSON
C24_AsClaimed ==
    \A s \in AnSlots : an[s].pc = "call" =>
        \A resp \in Responses :
            LET block == FirstBlock(resp.text)
                object == IF IsSome(block) THEN JSONParse(Get(block), resp.data) ELSE None
            IN parseAnalysisResult(resp).ok = IsSome(object)

\* the fields of a record that are set when it is created
CreationFields ==
    {"userId", "fileName", "originalName", "mimeType", "fileSize", "filePath",
     "uploadDate", "jobTitle", "jobDescription"}

\* C25: a record keeps its id and the fields set at its creation as long as it exists;
\* a record leaves the collection only in the removal step of a delete request on it;
\* and a step of an analyze invocation changes nothing but status, analysis, score and
\* error of its record.
C25_Frame ==
    [][ /\ \A r \in DOMAIN records :
              /\ r \in DOMAIN records' =>
                    \A f \in CreationFields : records'[r][f] = records[r][f]
              /\ r \notin DOMAIN records' =>
                    \E d \in DelSlots : /\ del[d].pc = "remove" /\ del[d].rid = r
                                        /\ del'[d] # del[d]
        /\ \A s \in AnSlots :
              an[s].pc \notin {"idle", "done"} /\ an'[s] # an[s] =>
                    DiffersOnlyIn(records, records', an[s].rid,
                                  {"status", "analysis", "score", "error"})
      ]_vars

\* C25's case: the first record has been analysed and still has what it was created
\* with, while the other record has been deleted
C25_Witness ==
    /\ 1 \in DOMAIN records /\ records[1].status = "analyzed"
    /\ \A f \in CreationFields :
          records[1][f] = StoredResume("u1", File(2048, "a"), generateFileName(1, 1))[f]
    /\ 2 \notin DOMAIN records

(* ------------------- analysis and score of a record ------------------- *)

\* the answers to the invocations on a record that has been analysed: an object without
\* an overall score whose four scores average 65, and an object scoring 100
LaterResponses ==
    { [text |-> <<"x", "{", "d", "}">>,
       data |-> [scoreDetails |-> Some(ScoreDetails(N(60), N(60), N(70), N(70), None))]],
      [text |-> <<"x", "{", "d", "}">>,
       data |-> [scoreDetails |-> Some(ScoreDetails(N(100), N(100), N(100), N(100), Some(N(100))))]] }

\* the state after user "u1" has uploaded one file, the analysis that the upload
\* triggered has stored its result (score 65), and analyzeResume has been invoked twice
\* more on the record; from there the two invocations run, interleaved in any way,
\* while the owner may delete the record
InitReanalysis ==
    /\ records = InsertDoc(<<>>, 1,
                    ApplySet(StoredResume("u1", File(2048, "a"), generateFileName(1, 1)),
                             AnalysisAssignments(
                                [scoreDetails |-> ScoreDetails(N(50), N(60), N(70), N(80),
                                                               Some(N(65)))],
                                N(65))))
    /\ files = WriteFile(<<>>, generateFileName(1, 1), File(2048, "a"))
    /\ up = [i \in UploadIds |-> IF i = 1 THEN UploadedBy(1, "u1", File(2048, "a")) ELSE UpIdle]
    /\ an = [s \in AnSlots |-> IF s \in Racers THEN AnStart(1) ELSE AnIdle]
    /\ del = [d \in DelSlots |-> DelIdle]
    /\ dl = [k \in DlSlots |-> DlIdle]
    /\ ls = [l \in LsSlots |-> LsIdle]
    /\ clock = 0
    /\ last = NoLast
    /\ crashed = FALSE

NextReanalysis == AnalyzeSteps(Racers, LaterResponses) \/ DeleteWith(Requests({1}, {"u1"}))
SpecReanalysis == InitReanalysis /\ [][NextReanalysis]_vars

\* the score that parseAnalysisResult computes from an analysis
ScoreOfAnalysis(analysis) ==
    LET sd == analysis.scoreDetails
    IN IF IsSome(sd.overallScore) /\ Get(sd.overallScore) # N(0)
       THEN Get(sd.overallScore)
       ELSE RoundQuarter(sd.relevanceScore + sd.completenessScore
                         + sd.formattingScore + sd.languageScore)

\* C26 as stated: in every stored record, analysis and score are both absent or both
\* present, and a present score is the score computed from the present analysis
C26_AsClaimed ==
    \A r \in DOMAIN records :
        /\ IsSome(records[r].analysis) <=> IsSome(records[r].score)
        /\ IsSome(records[r].analysis) =>
              Get(records[r].score) = ScoreOfAnalysis(Get(records[r].analysis))

(* ---------------------- requests without a token ---------------------- *)

\* the five routes, called by user "u1" and by clients without a valid bearer token:
\* uploads of a 2KB text file, and list, get, download and delete requests
AuthUploads ==
    { [user |-> u, mime |-> "text/plain", content |-> File(2048, "a"), bodyOk |-> TRUE] :
        u \in {"u1", NoUser} }
AuthRequests == Requests({1}, {"u1", NoUser})
NextAuth ==
    \/ UploadWith(AuthUploads)
    \/ ListWith(ListRequests({"u1", NoUser}, {}, {}, {}))
    \/ ReadWith(AuthRequests)
    \/ DownloadWith(AuthRequests)
    \/ DeleteWith(AuthRequests)
SpecAuth == Init /\ [][NextAuth]_vars

Routes == {"upload", "list", "get", "download", "delete"}

\* C27 as stated: a request to one of the five routes that carries no valid bearer
\* token is not rejected, that is, it is not answered 401
C27_AsClaimed ==
    last.op \in Routes /\ last.user = NoUser => last.status # 401

\* C27, corrected: a request to one of the five routes that carries no valid bearer
\* token is rejected by requireAuth: it is answered 401 UNAUTHORIZED in the step in
\* which it arrives, and that step changes no record, no file and no request in
\* progress; and no record is ever owned by anyone but a user.
C27_Rejected ==
    [][ /\ last'.op \in Routes /\ last'.user = NoUser =>
              /\ last'.status = 401 /\ last'.code = "UNAUTHORIZED"
              /\ UNCHANGED <<records, files, up, an, del, dl, ls>>
        /\ \A r \in DOMAIN records' : records'[r].userId \in Users
      ]_vars

\* C27's case: a delete request without a token on a record that exists has been
\* answered 401, and the record and its file are still there
C27_Witness ==
    /\ last.op = "delete" /\ last.user = NoUser /\ last.status = 401
    /\ last.rid \in DOMAIN records
    /\ Exists(records[last.rid].filePath)

\* C28 as stated: when an upload request has been answered with anything but 201, no
\* record created by that request exists
C28_AsClaimed ==
    last.op = "upload" /\ last.status # 201 => last.req.n \notin DOMAIN records

\* C29 as stated: once an upload request is over, the record it created, if it still
\* exists, has had analyzeResume invoked on it by that request
C29_AsClaimed ==
    \A i \in UploadIds :
        up[i].pc = "done" /\ i \in DOMAIN records => an[i].pc # "idle"

\* C30 as stated: the process keeps running, and a download request is answered 200
\* with the complete bytes of the file or 404
C30_AsClaimed ==
    /\ ~crashed
    /\ last.op = "download" /\ last.user # NoUser =>
          \/ last.status = 404
          \/ last.status = 200 /\ last.body = Some(up[last.rid].content)

====
